---- MODULE Spec2Model ----
(***************************************************************************)
(* A model of src/src/server.c: the signal-driven TCP server of            *)
(* libedsacnetworking.  Handlers (io_handler, connect_handler,             *)
(* iter_keep_alives) and the public calls (start_server, read_message,     *)
(* get_connected_list, stop_server) run as concurrent execution contexts   *)
(* that share the connection table, the read buffer queue and their        *)
(* mutexes.  A step of a context is one critical section or one system     *)
(* call sequence that touches no shared state of another context.          *)
(***************************************************************************)
EXTENDS Integers, Sequences, FiniteSets, TLC

\* ------------------------------------------------------------ bounds
MaxConns == 2      \* connections accepted in one run (records ever allocated)
MaxFds == 2        \* descriptors the process can hold for client sockets
NReaders == 2      \* contexts that can run io_handler at the same time
NAcceptors == 2    \* contexts that can run connect_handler at the same time
MaxTime == 2       \* the clock stops advancing here
MaxSends == 2      \* client writes in one run
MaxPend == 2       \* queued READ_SIG signals per descriptor
MaxTicks == 2      \* timer expirations in one run
MaxReads == 2      \* read_message calls in one run
MaxStarts == 1     \* start_server calls in one run
MaxLen == 5        \* bytes in the write the frame reader is tried on

\* ------------------------------------------------------------ program constants
KEEP_ALIVE_PROD == 1

LBRACE == "{"
RBRACE == "}"
NL == "\n"
CR == "\r"

RecIds == 1..MaxConns
Fds == 1..MaxFds
Peers == 1..MaxConns
RIds == 1..NReaders
AIds == 1..NAcceptors

\* owners of a mutex
NoOwner == <<"none", 0>>
RThread(r) == <<"io_handler", r>>
AThread(a) == <<"connect_handler", a>>
SThread == <<"iter_keep_alives", 0>>
MThread == <<"main", 0>>

VARIABLES
    now,                \* time(NULL)
    listen_socket,      \* the global listen_socket: -1 or the descriptor
    os_listen,          \* kernel state of the listening socket
    backlog,            \* connections waiting in the listen queue
    pend_connect,       \* queued CONNECT_SIG signals
    pend_read,          \* queued READ_SIG signals, per si_fd
    sig_connect,        \* disposition of SIGRTMIN + CONNECT_SIG
    sig_read,           \* disposition of SIGRTMIN + READ_SIG
    timer_on,           \* the keep-alive timer is installed
    read_buff,          \* the global read buffer queue (null or its items)
    read_buff_mux,      \* owner of read_buff_mux
    connections_table,  \* the global connections table (null or fd -> record)
    connections_mux,    \* owner of connections_mux
    condata,            \* the heap of ConnectionData records
    fdtab,              \* kernel descriptor table: fd -> connection, 0 = closed
    conn,               \* the TCP connections: bytes unread, peer closed, O_ASYNC
    nconn,              \* connections accepted so far
    rpc, rfd, rcon,     \* io_handler contexts: position, si_fd, condata
    apc, afd, acon,     \* connect_handler contexts: position, fd, condata
    spc, stodo,         \* iter_keep_alives: position, records left to visit
    mpc, mtodo,         \* main context: position, records left to destroy
    mret, mlist,        \* last result of read_message / get_connected_list
    exited,             \* exit(EXIT_FAILURE) was called
    hist                \* history: counters and logs of what happened

vars == <<now, listen_socket, os_listen, backlog, pend_connect, pend_read,
          sig_connect, sig_read, timer_on, read_buff, read_buff_mux,
          connections_table, connections_mux, condata, fdtab, conn, nconn,
          rpc, rfd, rcon, apc, afd, acon, spc, stodo, mpc, mtodo, mret,
          mlist, exited, hist>>

lifeVars == <<listen_socket, os_listen, sig_connect, sig_read, timer_on>>
queueVars == <<read_buff, read_buff_mux>>
tableVars == <<connections_table, connections_mux, condata>>
readerVars == <<rpc, rfd, rcon>>
acceptVars == <<apc, afd, acon>>
scanVars == <<spc, stodo>>
mainVars == <<mpc, mtodo, mret, mlist>>

\* ------------------------------------------------------------ values
\* a BufferItem: msg.type, the text of a software error, address, recv_time;
\* conn and seq record which connection's bytes and which object of its
\* stream the item was read from (0 for an item that was not read)
Item(type, reason, address, time, c, n) ==
    [type |-> type, reason |-> reason, address |-> address,
     recv_time |-> time, conn |-> c, seq |-> n]

NoItem == Item("NULL", "", 0, 0, 0, 0)

\* a ConnectionData that is not allocated
NoRecord == [st |-> "unalloc", fd |-> 0, addr |-> 0, last_keep_alive |-> 0,
             destroyed |-> FALSE, mutex |-> NoOwner, mutex_ok |-> FALSE]

NoConn == [stream |-> <<>>, peer_closed |-> FALSE, async |-> FALSE, framed |-> 0]

Min(S) == CHOOSE x \in S : \A y \in S : x <= y

\* ------------------------------------------------------------ frame reader
Status(st, obj, rest) == [status |-> st, obj |-> obj, rest |-> rest]

RECURSIVE read_rest_flat(_, _, _)
\* a loop that stops at the first closing brace, whatever the nesting
read_rest_flat(s, nest_count, string) ==
    IF s = <<>>
    THEN Status("ERROR", <<>>, <<>>)
    ELSE IF Head(s) = RBRACE
         THEN Status("SUCCESS", Append(string, Head(s)), Tail(s))
         ELSE read_rest_flat(Tail(s), nest_count, Append(string, Head(s)))

RECURSIVE read_rest(_, _, _)
\* the loop of read_json_object: s is what the socket still holds
read_rest(s, nest_count, string) ==
    IF s = <<>>
    THEN Status("ERROR", <<>>, <<>>)
    ELSE LET buf == Head(s)
             n == IF buf = LBRACE THEN nest_count + 1
                  ELSE IF buf = RBRACE THEN nest_count - 1
                  ELSE nest_count
         IN IF n = 0
            THEN Status("SUCCESS", Append(string, buf), Tail(s))
            ELSE read_rest(Tail(s), n, Append(string, buf))

RECURSIVE read_json_object(_)
read_json_object(s) ==
    IF s = <<>>
    THEN Status("END", <<>>, <<>>)
    ELSE IF Head(s) # LBRACE
         THEN IF Head(s) \in {NL, CR}
              THEN read_json_object(Tail(s))
              ELSE Status("ERROR", <<>>, Tail(s))
         ELSE read_rest(Tail(s), 1, <<LBRACE>>)

\* decode_message of edsac_representation: the first letter of the object is
\* its type; an object holding "!" or no letter does not decode
Letters(obj) == SelectSeq(obj, LAMBDA b : b \in {"K", "X", "Y"})

decode_message(obj) ==
    IF (\E i \in 1..Len(obj) : obj[i] = "!") \/ Letters(obj) = <<>>
    THEN [ok |-> FALSE, type |-> "INVALID"]
    ELSE [ok |-> TRUE,
          type |-> IF Letters(obj)[1] = "K" THEN "KEEP_ALIVE" ELSE Letters(obj)[1]]

\* g_queue_push_tail: nothing happens on a NULL queue
g_queue_push_tail(q, item) ==
    IF q.null THEN q ELSE [q EXCEPT !.items = Append(@, item)]

\* ------------------------------------------------------------ reads of a record
\* a field of a record that was freed holds whatever the allocator left there
FdOf(p) == IF condata[p].st = "live" THEN {condata[p].fd} ELSE Fds
AddrOf(p) == IF condata[p].st = "live" THEN {condata[p].addr} ELSE Peers
DestroyedOf(p) == IF condata[p].st = "live" THEN {condata[p].destroyed} ELSE BOOLEAN

\* the descriptor that refers to connection k, 0 if none
FdOfConn(k) == IF \E f \in Fds : fdtab[f] = k
               THEN CHOOSE f \in Fds : fdtab[f] = k ELSE 0

\* a READ_SIG is queued for connection k when its socket has O_ASYNC set
Signal(k) ==
    IF k # 0 /\ FdOfConn(k) # 0 /\ conn[k].async /\ pend_read[FdOfConn(k)] < MaxPend
    THEN [pend_read EXCEPT ![FdOfConn(k)] = @ + 1]
    ELSE pend_read

\* ------------------------------------------------------------ initial state
Hist0 == [starts |-> 0, start_failed |-> FALSE, sends |-> 0, ticks |-> 0,
          reads |-> 0, destroyed |-> 0, stopped |-> FALSE,
          drained |-> 0, reads_stopped |-> 0, delivered |-> <<>>,
          accept_failed |-> FALSE, accept_fd |-> 0, accept_closes |-> 0]

Init ==
    /\ now = 0
    /\ listen_socket = -1
    /\ os_listen = "closed"
    /\ backlog = 0
    /\ pend_connect = 0
    /\ pend_read = [f \in Fds |-> 0]
    /\ sig_connect = "default"
    /\ sig_read = "default"
    /\ timer_on = FALSE
    /\ read_buff = [null |-> TRUE, items |-> <<>>]
    /\ read_buff_mux = NoOwner
    /\ connections_table = [null |-> TRUE, map |-> [f \in Fds |-> 0]]
    /\ connections_mux = NoOwner
    /\ condata = [p \in RecIds |-> NoRecord]
    /\ fdtab = [f \in Fds |-> 0]
    /\ conn = [k \in RecIds |-> NoConn]
    /\ nconn = 0
    /\ rpc = [r \in RIds |-> "idle"]
    /\ rfd = [r \in RIds |-> 0]
    /\ rcon = [r \in RIds |-> 0]
    /\ apc = [a \in AIds |-> "idle"]
    /\ afd = [a \in AIds |-> 0]
    /\ acon = [a \in AIds |-> 0]
    /\ spc = "idle"
    /\ stodo = {}
    /\ mpc = "idle"
    /\ mtodo = {}
    /\ mret = NoItem
    /\ mlist = {}
    /\ exited = FALSE
    /\ hist = Hist0

\* ------------------------------------------------------------ the environment
\* time(NULL) advances
Tick ==
    /\ ~exited
    /\ now < MaxTime
    /\ now' = now + 1
    /\ UNCHANGED <<lifeVars, queueVars, tableVars, readerVars, acceptVars,
                   scanVars, mainVars, backlog, pend_connect, pend_read,
                   fdtab, conn, nconn, exited, hist>>

\* a client connects: the kernel queues it and raises CONNECT_SIG
ClientConnect ==
    /\ ~exited
    /\ os_listen = "listening"
    /\ nconn + backlog < MaxConns
    /\ backlog' = backlog + 1
    /\ pend_connect' = pend_connect + 1
    /\ UNCHANGED <<lifeVars, queueVars, tableVars, readerVars, acceptVars,
                   scanVars, mainVars, now, pend_read, fdtab, conn, nconn,
                   exited, hist>>

\* a client writes chunk in one write: one READ_SIG if the socket is armed
ClientSend(k, chunk) ==
    /\ ~exited
    /\ hist.sends < MaxSends
    /\ FdOfConn(k) # 0
    /\ ~conn[k].peer_closed
    /\ conn' = [conn EXCEPT ![k].stream = @ \o chunk]
    /\ pend_read' = Signal(k)
    /\ hist' = [hist EXCEPT !.sends = @ + 1]
    /\ UNCHANGED <<lifeVars, queueVars, tableVars, readerVars, acceptVars,
                   scanVars, mainVars, now, backlog, pend_connect, fdtab,
                   nconn, exited>>

\* a client closes its end: one READ_SIG if the socket is armed
ClientClose(k) ==
    /\ ~exited
    /\ FdOfConn(k) # 0
    /\ ~conn[k].peer_closed
    /\ conn' = [conn EXCEPT ![k].peer_closed = TRUE]
    /\ pend_read' = Signal(k)
    /\ UNCHANGED <<lifeVars, queueVars, tableVars, readerVars, acceptVars,
                   scanVars, mainVars, now, backlog, pend_connect, fdtab,
                   nconn, exited, hist>>

\* a queued signal whose handler is do_nothing is consumed without effect
do_nothing ==
    /\ ~exited
    /\ \/ /\ sig_connect = "do_nothing"
          /\ pend_connect > 0
          /\ pend_connect' = pend_connect - 1
          /\ UNCHANGED pend_read
       \/ /\ sig_read = "do_nothing"
          /\ \E f \in Fds :
               /\ pend_read[f] > 0
               /\ pend_read' = [pend_read EXCEPT ![f] = @ - 1]
          /\ UNCHANGED pend_connect
    /\ UNCHANGED <<lifeVars, queueVars, tableVars, readerVars, acceptVars,
                   scanVars, mainVars, now, backlog, fdtab, conn, nconn,
                   exited, hist>>

\* ------------------------------------------------------------ free_connectiondata
\* pthread_mutex_unlock of a mutex another context holds is undefined: the
\* mutex is released or stays as it is
ReleaseChoices(p, self) ==
    IF condata[p].mutex \in {self, NoOwner} THEN {TRUE} ELSE BOOLEAN

\* destroyed = true; pthread_mutex_unlock(&condata->mutex)
free_connectiondata_unlock(cd, p, release) ==
    [cd EXCEPT ![p].destroyed = TRUE,
               ![p].mutex = IF release THEN NoOwner ELSE @]

\* pthread_mutex_destroy; free(condata)
free_connectiondata_free(cd, p) ==
    [cd EXCEPT ![p].st = "freed", ![p].mutex_ok = FALSE]

\* close(fd): closing a descriptor that is not open changes nothing
close(ft, fd) == [f \in Fds |-> IF f = fd THEN 0 ELSE ft[f]]

\* ------------------------------------------------------------ start_server
StartFailures == {"none", "socket", "bind", "queue", "table", "sigaction",
                  "fcntl", "timer", "listen"}

EmptyQueue == [null |-> FALSE, items |-> <<>>]
NullQueue == [null |-> TRUE, items |-> <<>>]
EmptyTable == [null |-> FALSE, map |-> [f \in Fds |-> 0]]
NullTable == [null |-> TRUE, map |-> [f \in Fds |-> 0]]

\* start_server, with the step that fails (or none)
start_server(fail) ==
    /\ ~exited
    /\ mpc = "idle"
    /\ os_listen = "closed"
    /\ hist.starts < MaxStarts
    /\ LET s0 == {"socket"}
           s1 == s0 \cup {"bind"}
           s2 == s1 \cup {"queue"}
           s3 == s2 \cup {"table"}
           s4 == s3 \cup {"sigaction", "fcntl"}
           s5 == s4 \cup {"timer"}
       IN
       /\ listen_socket' = IF fail = "none" THEN 0 ELSE -1
       /\ os_listen' = IF fail = "none" THEN "listening" ELSE "closed"
       \* g_queue_new is reached past bind; it is freed and reset on the
       \* failures of setup_rt_signal_io, create_timer and listen only
       /\ read_buff' = IF fail \in s1 THEN read_buff
                       ELSE IF fail = "queue" THEN NullQueue
                       ELSE IF fail \in {"table", "none"} THEN EmptyQueue
                       ELSE NullQueue
       \* g_hash_table_new_full is reached past the queue; it is destroyed
       \* and reset on the failures of setup_rt_signal_io and create_timer only
       /\ connections_table' = IF fail \in s2 THEN connections_table
                               ELSE IF fail = "table" THEN NullTable
                               ELSE IF fail \in {"listen", "none"} THEN EmptyTable
                               ELSE NullTable
       \* sigaction installs connect_handler; nothing resets it
       /\ sig_connect' = IF fail \in s3 \cup {"sigaction"} THEN sig_connect
                         ELSE "handler"
       \* create_timer; nothing stops it when listen fails
       /\ timer_on' = IF fail \in s5 THEN timer_on ELSE TRUE
    /\ hist' = [hist EXCEPT !.starts = @ + 1, !.start_failed = (fail # "none"),
                            !.stopped = FALSE]
    /\ UNCHANGED <<readerVars, acceptVars, scanVars, mainVars, now, backlog,
                   pend_connect, pend_read, fdtab, conn, nconn, exited,
                   sig_read, read_buff_mux, connections_mux, condata>>

\* ------------------------------------------------------------ read_message
\* g_queue_pop_head: NULL on a NULL or empty queue
read_message ==
    /\ ~exited
    /\ mpc = "idle"
    /\ hist.reads < MaxReads
    /\ read_buff_mux = NoOwner
    /\ LET empty == read_buff.null \/ read_buff.items = <<>>
           ret == IF empty THEN NoItem ELSE Head(read_buff.items)
       IN /\ mret' = ret
          /\ read_buff' = IF empty THEN read_buff
                          ELSE [read_buff EXCEPT !.items = Tail(@)]
          /\ hist' = [hist EXCEPT !.reads = @ + 1,
                         !.reads_stopped = IF hist.stopped THEN @ + 1 ELSE @,
                         !.delivered = IF empty THEN @ ELSE Append(@, ret)]
    /\ UNCHANGED <<lifeVars, tableVars, readerVars, acceptVars, scanVars,
                   now, backlog, pend_connect, pend_read, fdtab, conn, nconn,
                   exited, read_buff_mux, mpc, mtodo, mlist>>

\* read_message step by step, for a caller that a signal can interrupt:
\* pthread_mutex_lock(&read_buff_mux)
read_message_lock ==
    /\ ~exited
    /\ mpc = "idle"
    /\ hist.reads < MaxReads
    /\ read_buff_mux = NoOwner
    /\ read_buff_mux' = MThread
    /\ mpc' = "read_pop"
    /\ UNCHANGED <<lifeVars, tableVars, readerVars, acceptVars, scanVars,
                   now, backlog, pend_connect, pend_read, fdtab, conn, nconn,
                   exited, hist, read_buff, mtodo, mret, mlist>>

\* g_queue_pop_head; pthread_mutex_unlock(&read_buff_mux); return
read_message_pop ==
    /\ ~exited
    /\ mpc = "read_pop"
    /\ LET empty == read_buff.null \/ read_buff.items = <<>>
           ret == IF empty THEN NoItem ELSE Head(read_buff.items)
       IN /\ mret' = ret
          /\ read_buff' = IF empty THEN read_buff
                          ELSE [read_buff EXCEPT !.items = Tail(@)]
          /\ hist' = [hist EXCEPT !.reads = @ + 1,
                         !.reads_stopped = IF hist.stopped THEN @ + 1 ELSE @,
                         !.delivered = IF empty THEN @ ELSE Append(@, ret)]
    /\ read_buff_mux' = NoOwner
    /\ mpc' = "idle"
    /\ UNCHANGED <<lifeVars, tableVars, readerVars, acceptVars, scanVars,
                   now, backlog, pend_connect, pend_read, fdtab, conn, nconn,
                   exited, mtodo, mlist>>

\* ------------------------------------------------------------ get_connected_list
\* g_hash_table_foreach(list_ip_addrs): the addr of every record, nothing on
\* a NULL table
list_ip_addrs(table) ==
    IF table.null THEN {}
    ELSE {condata[table.map[f]].addr : f \in {g \in Fds : table.map[g] # 0}}

\* lock connections_mux; g_hash_table_foreach(list_ip_addrs); unlock
get_connected_list ==
    /\ ~exited
    /\ mpc = "idle"
    /\ connections_mux = NoOwner
    /\ mlist' = list_ip_addrs(connections_table)
    /\ UNCHANGED <<lifeVars, queueVars, tableVars, readerVars, acceptVars,
                   scanVars, now, backlog, pend_connect, pend_read, fdtab,
                   conn, nconn, exited, hist, mpc, mtodo, mret>>

\* ------------------------------------------------------------ stop_server
\* records of the table, as a set
Records(table) == {table.map[f] : f \in {g \in Fds : table.map[g] # 0}}

\* DISABLE_SIGNAL twice, stop_timer, close(listen_socket); then, if
\* (connections_table): lock connections_mux; g_hash_table_destroy takes every
\* entry out of the table and calls free_connectiondata on each
stop_server ==
    /\ ~exited
    /\ mpc = "idle"
    /\ hist.starts > 0
    /\ ~hist.stopped
    /\ sig_read' = "do_nothing"
    /\ sig_connect' = "do_nothing"
    /\ timer_on' = FALSE
    /\ listen_socket' = -1
    /\ os_listen' = "closed"
    /\ backlog' = 0
    /\ IF connections_table.null
       THEN /\ mpc' = "stop_queue"
            /\ UNCHANGED <<connections_table, connections_mux, mtodo>>
       ELSE /\ connections_mux = NoOwner
            /\ mtodo' = Records(connections_table)
            /\ IF Records(connections_table) = {}
               THEN /\ connections_table' = NullTable
                    /\ mpc' = "stop_queue"
                    /\ UNCHANGED connections_mux
               ELSE /\ connections_table' = EmptyTable
                    /\ connections_mux' = MThread
                    /\ mpc' = "stop_destroy"
    /\ UNCHANGED <<queueVars, readerVars, acceptVars, scanVars, now,
                   pend_connect, pend_read, fdtab, conn, nconn, exited,
                   hist, condata, mret, mlist>>

\* free_connectiondata of the next record, up to the unlock of its mutex
stop_server_destroy ==
    /\ ~exited
    /\ mpc = "stop_destroy"
    /\ \E release \in ReleaseChoices(Min(mtodo), MThread) :
         condata' = free_connectiondata_unlock(condata, Min(mtodo), release)
    /\ mpc' = "stop_free"
    /\ UNCHANGED <<lifeVars, queueVars, readerVars, acceptVars, scanVars,
                   now, backlog, pend_connect, pend_read, fdtab, conn, nconn,
                   exited, hist, connections_table, connections_mux, mtodo,
                   mret, mlist>>

\* the rest of free_connectiondata: destroy the mutex, close the fd, free;
\* after the last record: connections_table = NULL; unlock connections_mux
stop_server_free ==
    /\ ~exited
    /\ mpc = "stop_free"
    /\ condata' = free_connectiondata_free(condata, Min(mtodo))
    /\ fdtab' = close(fdtab, condata[Min(mtodo)].fd)
    /\ mtodo' = mtodo \ {Min(mtodo)}
    /\ hist' = [hist EXCEPT !.destroyed = @ + 1]
    /\ IF mtodo' = {}
       THEN /\ connections_table' = NullTable
            /\ connections_mux' = NoOwner
            /\ mpc' = "stop_queue"
       ELSE /\ mpc' = "stop_destroy"
            /\ UNCHANGED <<connections_table, connections_mux>>
    /\ UNCHANGED <<lifeVars, queueVars, readerVars, acceptVars, scanVars,
                   now, backlog, pend_connect, pend_read, conn, nconn,
                   exited, mret, mlist>>

\* a stop_server that leaves the queue as it is
g_queue_free_full_kept(q) == q

\* g_queue_free_full(read_buff, free_bufferitem); read_buff = NULL
g_queue_free_full(q) == NullQueue

\* if (read_buff): lock read_buff_mux; free the queue; unlock
stop_server_queue ==
    /\ ~exited
    /\ mpc = "stop_queue"
    /\ IF read_buff.null
       THEN UNCHANGED read_buff
       ELSE /\ read_buff_mux = NoOwner
            /\ read_buff' = g_queue_free_full(read_buff)
    /\ mpc' = "idle"
    /\ hist' = [hist EXCEPT !.stopped = TRUE,
                            !.drained = @ + Len(read_buff.items)]
    /\ UNCHANGED <<lifeVars, tableVars, readerVars, acceptVars, scanVars,
                   now, backlog, pend_connect, pend_read, fdtab, conn, nconn,
                   exited, read_buff_mux, mtodo, mret, mlist>>

\* ------------------------------------------------------------ connect_handler
AcceptFailures == {"none", "malloc", "getpeername", "mutex_init", "time"}

FreeFds == {f \in Fds : fdtab[f] = 0}

\* a record as connect_handler fills it in
NewRecord(fd, k) ==
    [st |-> "live", fd |-> fd, addr |-> k, last_keep_alive |-> now,
     destroyed |-> FALSE, mutex |-> NoOwner, mutex_ok |-> TRUE]

\* CONNECT_SIG is delivered to a context that runs connect_handler: accept,
\* malloc of the ConnectionData, getpeername, pthread_mutex_init, time, up to
\* the lock of connections_mux; fail names the call that fails
connect_handler(a, fail) ==
    /\ ~exited
    /\ apc[a] = "idle"
    /\ sig_connect = "handler"
    /\ pend_connect > 0
    /\ pend_connect' = pend_connect - 1
    /\ IF os_listen # "listening" \/ backlog = 0 \/ FreeFds = {}
       THEN \* -1 == accept
            /\ fail = "none"
            /\ UNCHANGED <<backlog, fdtab, conn, nconn, condata, apc, afd,
                           acon, hist>>
       ELSE LET fd == Min(FreeFds)
                k == nconn + 1
            IN /\ backlog' = backlog - 1
               /\ nconn' = k
               /\ conn' = [conn EXCEPT ![k] = NoConn]
               /\ IF fail = "none"
                  THEN /\ fdtab' = [fdtab EXCEPT ![fd] = k]
                       /\ condata' = [condata EXCEPT ![k] = NewRecord(fd, k)]
                       /\ afd' = [afd EXCEPT ![a] = fd]
                       /\ acon' = [acon EXCEPT ![a] = k]
                       /\ apc' = [apc EXCEPT ![a] = "insert"]
                       /\ UNCHANGED hist
                  ELSE /\ UNCHANGED <<apc, afd, acon>>
                       /\ IF fail = "time"
                          THEN \* close(fd); free_connectiondata closes
                               \* condata->fd, which is not yet assigned
                               /\ \E g \in Fds \cup {0} :
                                    /\ fdtab' = close(fdtab, g)
                                    /\ hist' = [hist EXCEPT
                                          !.destroyed = @ + 1,
                                          !.accept_failed = TRUE,
                                          !.accept_fd = fd,
                                          !.accept_closes = IF g = fd THEN 2 ELSE 1]
                               /\ condata' = [condata EXCEPT ![k] =
                                     [NoRecord EXCEPT !.st = "freed"]]
                          ELSE \* close(fd); free(condata)
                               /\ UNCHANGED fdtab
                               /\ hist' = [hist EXCEPT !.accept_failed = TRUE,
                                                       !.accept_fd = fd,
                                                       !.accept_closes = 1]
                               /\ condata' = [condata EXCEPT ![k] =
                                     [NoRecord EXCEPT !.st =
                                        IF fail = "malloc" THEN "unalloc"
                                        ELSE "freed"]]
    /\ UNCHANGED <<lifeVars, queueVars, readerVars, scanVars, mainVars, now,
                   pend_read, exited, connections_table, connections_mux>>

InsertFailures == {"none", "lock", "key"}

\* an insert that writes back a table read before another insert
g_hash_table_insert_lost(table, fd, p) ==
    IF table.null \/ table.map[fd] # 0
    THEN [ok |-> FALSE, table |-> table]
    ELSE [ok |-> TRUE,
          table |-> [table EXCEPT !.map = [f \in Fds |-> IF f = fd THEN p ELSE 0]]]

\* g_hash_table_insert: FALSE on a NULL table or when the key is there
g_hash_table_insert(table, fd, p) ==
    IF table.null \/ table.map[fd] # 0
    THEN [ok |-> FALSE, table |-> table]
    ELSE [ok |-> TRUE, table |-> [table EXCEPT !.map[fd] = p]]

\* lock connections_mux, malloc of the key, g_hash_table_insert, unlock
connect_handler_insert(a, fail) ==
    /\ ~exited
    /\ apc[a] = "insert"
    /\ LET fd == afd[a]
           p == acon[a]
           ins == g_hash_table_insert(connections_table, fd, p)
       IN IF fail = "lock"
          THEN \* close(fd); free_connectiondata(condata); return
               /\ condata' = free_connectiondata_free(
                                free_connectiondata_unlock(condata, p, TRUE), p)
               /\ fdtab' = close(fdtab, fd)
               /\ hist' = [hist EXCEPT !.destroyed = @ + 1,
                                       !.accept_failed = TRUE,
                                       !.accept_fd = fd,
                                       !.accept_closes = 2]
               /\ apc' = [apc EXCEPT ![a] = "idle"]
               /\ UNCHANGED <<connections_table, connections_mux, exited>>
          ELSE /\ connections_mux = NoOwner
               /\ IF fail = "key"
                  THEN \* the same, and connections_mux stays locked
                       /\ condata' = free_connectiondata_free(
                                free_connectiondata_unlock(condata, p, TRUE), p)
                       /\ fdtab' = close(fdtab, fd)
                       /\ hist' = [hist EXCEPT !.destroyed = @ + 1,
                                               !.accept_failed = TRUE,
                                               !.accept_fd = fd,
                                               !.accept_closes = 2]
                       /\ connections_mux' = AThread(a)
                       /\ apc' = [apc EXCEPT ![a] = "idle"]
                       /\ UNCHANGED <<connections_table, exited>>
                  ELSE IF ~ins.ok
                  THEN \* puts("ERROR: duplicate entry"); exit(EXIT_FAILURE)
                       /\ exited' = TRUE
                       /\ connections_mux' = AThread(a)
                       /\ apc' = [apc EXCEPT ![a] = "exit"]
                       /\ UNCHANGED <<connections_table, condata, fdtab, hist>>
                  ELSE /\ connections_table' = ins.table
                       /\ apc' = [apc EXCEPT ![a] = "arm"]
                       /\ UNCHANGED <<connections_mux, condata, fdtab, hist, exited>>
    /\ UNCHANGED <<lifeVars, queueVars, readerVars, scanVars, mainVars, now,
                   backlog, pend_connect, pend_read, conn, nconn, afd, acon>>

\* setup_rt_signal_io(fd, SIGRTMIN + READ_SIG, io_handler): its result is
\* not looked at; sigaction installs io_handler, fcntl sets O_ASYNC on
\* whatever fd refers to now
connect_handler_arm(a) ==
    /\ ~exited
    /\ apc[a] = "arm"
    /\ sig_read' = "handler"
    /\ conn' = IF fdtab[afd[a]] # 0
               THEN [conn EXCEPT ![fdtab[afd[a]]].async = TRUE]
               ELSE conn
    /\ apc' = [apc EXCEPT ![a] = "idle"]
    /\ UNCHANGED <<queueVars, tableVars, readerVars, scanVars, mainVars, now,
                   backlog, pend_connect, pend_read, fdtab, nconn, exited,
                   hist, afd, acon, listen_socket, os_listen, sig_connect,
                   timer_on>>

\* ------------------------------------------------------------ io_handler
\* g_hash_table_lookup: NULL on a NULL table
g_hash_table_lookup(table, fd) == IF table.null THEN 0 ELSE table.map[fd]

\* READ_SIG with si_fd = f is delivered to a context that runs io_handler:
\* lock connections_mux; g_hash_table_lookup; unlock; return if NULL
io_handler(r) ==
    /\ ~exited
    /\ rpc[r] = "idle"
    /\ sig_read = "handler"
    /\ connections_mux = NoOwner
    /\ \E f \in Fds :
         /\ pend_read[f] > 0
         /\ pend_read' = [pend_read EXCEPT ![f] = @ - 1]
         /\ rfd' = [rfd EXCEPT ![r] = f]
         /\ rcon' = [rcon EXCEPT ![r] = g_hash_table_lookup(connections_table, f)]
         /\ rpc' = [rpc EXCEPT ![r] =
                      IF g_hash_table_lookup(connections_table, f) = 0
                      THEN "idle" ELSE "lock"]
    /\ UNCHANGED <<lifeVars, queueVars, tableVars, acceptVars, scanVars,
                   mainVars, now, backlog, pend_connect, fdtab, conn, nconn,
                   exited, hist>>

\* pthread_mutex_lock(&condata->mutex), then if (condata->destroyed) return
\* with the mutex still locked.  On a record that was freed both are
\* undefined: the lock fails or returns 0 without owning anything, and the
\* flag reads as anything.
io_handler_lock(r) ==
    /\ ~exited
    /\ rpc[r] = "lock"
    /\ LET p == rcon[r]
       IN IF condata[p].st = "live"
          THEN /\ condata[p].mutex = NoOwner
               /\ condata' = [condata EXCEPT ![p].mutex = RThread(r)]
               /\ rpc' = [rpc EXCEPT ![r] = IF condata[p].destroyed THEN "idle"
                                            ELSE "peek"]
          ELSE /\ \E locked \in BOOLEAN, destroyed \in DestroyedOf(p) :
                    rpc' = [rpc EXCEPT ![r] = IF locked /\ ~destroyed THEN "peek"
                                              ELSE "idle"]
               /\ UNCHANGED condata
    /\ UNCHANGED <<lifeVars, queueVars, acceptVars, scanVars, mainVars, now,
                   backlog, pend_connect, pend_read, fdtab, conn, nconn,
                   exited, hist, rfd, rcon, connections_table, connections_mux>>

\* recv(si_fd, &buf, 1, MSG_PEEK): 1 iff the descriptor is open and holds bytes
recv_peek(fd) == IF fdtab[fd] # 0 /\ conn[fdtab[fd]].stream # <<>> THEN 1
                 ELSE IF fdtab[fd] # 0 /\ conn[fdtab[fd]].peer_closed THEN 0
                 ELSE -1

\* what report_close puts on the queue
report_close_item(a, t) == Item("SOFTWARE_ERROR", "Connection closed", a, t, 0, 0)

\* 1 != count: report_close up to the call of destroy_connection: malloc of
\* the item, software_error "Connection closed", lock read_buff_mux, push,
\* unlock; return (the record stays locked) if malloc fails
report_close(r, malloc_ok) ==
    /\ ~exited
    /\ rpc[r] = "peek"
    /\ recv_peek(rfd[r]) # 1
    /\ IF malloc_ok
       THEN /\ read_buff_mux = NoOwner
            /\ \E a \in AddrOf(rcon[r]) :
                 read_buff' = g_queue_push_tail(read_buff, report_close_item(a, now))
            /\ rpc' = [rpc EXCEPT ![r] = "close_destroy"]
       ELSE /\ rpc' = [rpc EXCEPT ![r] = "idle"]
            /\ UNCHANGED read_buff
    /\ UNCHANGED <<lifeVars, tableVars, acceptVars, scanVars, mainVars, now,
                   backlog, pend_connect, pend_read, fdtab, conn, nconn,
                   exited, hist, rfd, rcon, read_buff_mux>>

\* 1 == count: object_reader: pthread_mutex_lock(&read_buff_mux)
object_reader(r) ==
    /\ ~exited
    /\ rpc[r] = "peek"
    /\ recv_peek(rfd[r]) = 1
    /\ read_buff_mux = NoOwner
    /\ read_buff_mux' = RThread(r)
    /\ rpc' = [rpc EXCEPT ![r] = "fetch_item"]
    /\ UNCHANGED <<lifeVars, tableVars, acceptVars, scanVars, mainVars, now,
                   backlog, pend_connect, pend_read, fdtab, conn, nconn,
                   exited, hist, rfd, rcon, read_buff>>

\* destroy_connection up to the unlock inside free_connectiondata: lock
\* connections_mux; g_hash_table_remove(&condata->fd) takes the entry out and
\* calls free_connectiondata on the record the table held under that key.
\* If there is no entry: unlock, and a second unlock is still to come.
destroy_connection(r) ==
    /\ ~exited
    /\ rpc[r] \in {"close_destroy", "error_destroy"}
    /\ connections_mux = NoOwner
    /\ \E fd \in FdOf(rcon[r]) :
         LET q == g_hash_table_lookup(connections_table, fd)
             from_close == rpc[r] = "close_destroy"
         IN IF q # 0
            THEN /\ connections_table' = [connections_table EXCEPT !.map[fd] = 0]
                 /\ \E release \in ReleaseChoices(q, RThread(r)) :
                      condata' = free_connectiondata_unlock(condata, q, release)
                 /\ connections_mux' = RThread(r)
                 /\ rcon' = [rcon EXCEPT ![r] = q]
                 /\ rpc' = [rpc EXCEPT ![r] = IF from_close THEN "close_free"
                                              ELSE "error_free"]
            ELSE /\ rpc' = [rpc EXCEPT ![r] = IF from_close THEN "close_unlock2"
                                              ELSE "error_unlock2"]
                 /\ UNCHANGED <<connections_table, condata, connections_mux, rcon>>
    /\ UNCHANGED <<lifeVars, queueVars, acceptVars, scanVars, mainVars, now,
                   backlog, pend_connect, pend_read, fdtab, conn, nconn,
                   exited, hist, rfd>>

\* the rest of free_connectiondata (destroy the mutex, close, free) and the
\* unlock of connections_mux that ends destroy_connection
destroy_connection_free(r) ==
    /\ ~exited
    /\ rpc[r] \in {"close_free", "error_free"}
    /\ condata' = free_connectiondata_free(condata, rcon[r])
    /\ fdtab' = close(fdtab, condata[rcon[r]].fd)
    /\ connections_mux' = NoOwner
    /\ hist' = [hist EXCEPT !.destroyed = @ + 1]
    /\ rpc' = [rpc EXCEPT ![r] = IF rpc[r] = "close_free" THEN "idle"
                                 ELSE "error_unlock"]
    /\ UNCHANGED <<lifeVars, queueVars, acceptVars, scanVars, mainVars, now,
                   backlog, pend_connect, pend_read, conn, nconn, exited,
                   rfd, rcon, connections_table>>

\* the second pthread_mutex_unlock(&connections_mux) of the not-found path:
\* the mutex is not held by this context; it is released or left alone
destroy_connection_unlock2(r) ==
    /\ ~exited
    /\ rpc[r] \in {"close_unlock2", "error_unlock2"}
    /\ \E release \in BOOLEAN :
         connections_mux' = IF release THEN NoOwner ELSE connections_mux
    /\ rpc' = [rpc EXCEPT ![r] = IF rpc[r] = "close_unlock2" THEN "idle"
                                 ELSE "error_unlock"]
    /\ UNCHANGED <<lifeVars, queueVars, acceptVars, scanVars, mainVars, now,
                   backlog, pend_connect, pend_read, fdtab, conn, nconn,
                   exited, hist, rfd, rcon, connections_table, condata>>

\* what one read_json_object on descriptor fd returns
ReadFrom(fd) ==
    IF fdtab[fd] = 0 THEN Status("END", <<>>, <<>>)
    ELSE read_json_object(conn[fdtab[fd]].stream)

\* a fetch_item that takes an object that does not decode for a heartbeat
fetch_item_msg_quiet(obj) ==
    IF decode_message(obj).ok
    THEN [type |-> decode_message(obj).type, reason |-> ""]
    ELSE [type |-> "KEEP_ALIVE", reason |-> ""]

\* the message fetch_item builds from a framed object
fetch_item_msg(obj) ==
    IF decode_message(obj).ok
    THEN [type |-> decode_message(obj).type, reason |-> ""]
    ELSE [type |-> "SOFTWARE_ERROR", reason |-> "Could not decode message"]

\* a push at the head of the queue
fetch_item_push_head(q, item) ==
    IF q.null THEN q ELSE [q EXCEPT !.items = <<item>> \o @]

\* where fetch_item puts a real message
fetch_item_push(q, item) == g_queue_push_tail(q, item)

\* a heartbeat that leaves last_keep_alive as it is
set_last_keep_alive_skip(cd, p, t) == cd

\* condata->last_keep_alive = time(NULL); a write to a freed record is lost
set_last_keep_alive(cd, p, t) ==
    IF cd[p].st = "live" THEN [cd EXCEPT ![p].last_keep_alive = t] ELSE cd

pthread_mutex_unlock_condata(cd, p) ==
    IF cd[p].st = "live" THEN [cd EXCEPT ![p].mutex = NoOwner] ELSE cd

\* fetch_item and what object_reader does with its status: on SUCCESS and END
\* unlock read_buff_mux and the record's mutex, on ERROR go on to
\* destroy_connection with both still locked
fetch_item(r, malloc_ok) ==
    /\ ~exited
    /\ rpc[r] = "fetch_item"
    /\ LET p == rcon[r]
       IN IF ~malloc_ok
          THEN /\ rpc' = [rpc EXCEPT ![r] = "error_destroy"]
               /\ UNCHANGED <<conn, condata, read_buff, read_buff_mux>>
          ELSE \E fd \in FdOf(p) :
               LET k == fdtab[fd]
                   res == ReadFrom(fd)
                   msg == fetch_item_msg(res.obj)
               IN /\ conn' = IF k = 0 THEN conn
                             ELSE [conn EXCEPT ![k].stream = res.rest,
                                     ![k].framed = IF res.status = "SUCCESS"
                                                   THEN @ + 1 ELSE @]
                  /\ IF res.status = "ERROR"
                     THEN /\ rpc' = [rpc EXCEPT ![r] = "error_destroy"]
                          /\ UNCHANGED <<condata, read_buff, read_buff_mux>>
                     ELSE /\ rpc' = [rpc EXCEPT ![r] = "idle"]
                          /\ read_buff_mux' = NoOwner
                          /\ IF res.status = "END"
                             THEN /\ condata' = pthread_mutex_unlock_condata(condata, p)
                                  /\ UNCHANGED read_buff
                             ELSE IF msg.type = "KEEP_ALIVE"
                             THEN /\ condata' = pthread_mutex_unlock_condata(
                                        set_last_keep_alive(condata, p, now), p)
                                  /\ UNCHANGED read_buff
                             ELSE /\ condata' = pthread_mutex_unlock_condata(condata, p)
                                  /\ \E a \in AddrOf(p) :
                                       read_buff' = fetch_item_push(read_buff,
                                          Item(msg.type, msg.reason, a, now, k,
                                               conn[k].framed + 1))
    /\ UNCHANGED <<lifeVars, acceptVars, scanVars, mainVars, now, backlog,
                   pend_connect, pend_read, fdtab, nconn, exited, hist, rfd,
                   rcon, connections_table, connections_mux>>

\* object_reader after destroy_connection: unlock read_buff_mux; return
object_reader_unlock(r) ==
    /\ ~exited
    /\ rpc[r] = "error_unlock"
    /\ read_buff_mux' = NoOwner
    /\ rpc' = [rpc EXCEPT ![r] = "idle"]
    /\ UNCHANGED <<lifeVars, tableVars, acceptVars, scanVars, mainVars, now,
                   backlog, pend_connect, pend_read, fdtab, conn, nconn,
                   exited, hist, rfd, rcon, read_buff>>

\* ------------------------------------------------------------ iter_keep_alives
\* the timer expires: pthread_mutex_trylock(&connections_mux), return if it
\* is held; g_hash_table_foreach over the entries of the table
iter_keep_alives ==
    /\ ~exited
    /\ spc = "idle"
    /\ timer_on
    /\ hist.ticks < MaxTicks
    /\ hist' = [hist EXCEPT !.ticks = @ + 1]
    /\ IF connections_mux # NoOwner \/ connections_table.null
          \/ Records(connections_table) = {}
       THEN UNCHANGED <<connections_mux, spc, stodo>>
       ELSE /\ connections_mux' = SThread
            /\ spc' = "visit"
            /\ stodo' = {f \in Fds : connections_table.map[f] # 0}
    /\ UNCHANGED <<lifeVars, queueVars, readerVars, acceptVars, mainVars, now,
                   backlog, pend_connect, pend_read, fdtab, conn, nconn,
                   exited, connections_table, condata>>

\* a test that lets one more second pass
TimedOut_late(last_keep_alive, t) == t - last_keep_alive > KEEP_ALIVE_PROD + 1

\* a lock in the place of the trylock: the call returns only once the mutex
\* is free
pthread_mutex_lock_returns(owner) == owner = NoOwner

\* pthread_mutex_trylock returns at once, whoever owns the mutex
pthread_mutex_trylock_returns(owner) == TRUE

\* the test of check_keep_alive
TimedOut(last_keep_alive, t) == t - last_keep_alive > KEEP_ALIVE_PROD

\* a timeout item stamped with the time the server started
check_keep_alive_item_stale(a, t) == Item("SOFTWARE_ERROR", "Connection timeout", a, 0, 0, 0)

\* what check_keep_alive puts on the queue
check_keep_alive_item(a, t) == Item("SOFTWARE_ERROR", "Connection timeout", a, t, 0, 0)

\* check_keep_alive on the next entry: if the record timed out, malloc the
\* item, pthread_mutex_trylock(&read_buff_mux), push, unlock; after the last
\* entry unlock connections_mux
check_keep_alive(malloc_ok) ==
    /\ ~exited
    /\ spc = "visit"
    /\ LET f == Min(stodo)
           p == g_hash_table_lookup(connections_table, f)
       IN /\ stodo' = stodo \ {f}
          /\ IF stodo' = {}
             THEN connections_mux' = NoOwner /\ spc' = "idle"
             ELSE UNCHANGED <<connections_mux, spc>>
          /\ (p # 0 /\ TimedOut(condata[p].last_keep_alive, now) /\ malloc_ok) =>
                pthread_mutex_trylock_returns(read_buff_mux)
          /\ IF p # 0 /\ TimedOut(condata[p].last_keep_alive, now) /\ malloc_ok
                /\ read_buff_mux = NoOwner
             THEN read_buff' = g_queue_push_tail(read_buff,
                                  check_keep_alive_item(condata[p].addr, now))
             ELSE UNCHANGED read_buff
    /\ UNCHANGED <<lifeVars, readerVars, acceptVars, mainVars, now, backlog,
                   pend_connect, pend_read, fdtab, conn, nconn, exited, hist,
                   connections_table, condata, read_buff_mux>>

\* ------------------------------------------------------------ specifications
\* the state a started server is in once n clients have connected and their
\* connect_handler invocations have returned, nothing sent yet
Running(n) ==
    /\ now = 0
    /\ listen_socket = 0
    /\ os_listen = "listening"
    /\ backlog = 0
    /\ pend_connect = 0
    /\ pend_read = [f \in Fds |-> 0]
    /\ sig_connect = "handler"
    /\ sig_read = IF n > 0 THEN "handler" ELSE "default"
    /\ timer_on = TRUE
    /\ read_buff = EmptyQueue
    /\ read_buff_mux = NoOwner
    /\ connections_table = [null |-> FALSE,
                            map |-> [f \in Fds |-> IF f <= n THEN f ELSE 0]]
    /\ connections_mux = NoOwner
    /\ condata = [p \in RecIds |-> IF p <= n THEN NewRecord(p, p) ELSE NoRecord]
    /\ fdtab = [f \in Fds |-> IF f <= n THEN f ELSE 0]
    /\ conn = [k \in RecIds |-> IF k <= n THEN [NoConn EXCEPT !.async = TRUE]
                                ELSE NoConn]
    /\ nconn = n
    /\ rpc = [r \in RIds |-> "idle"]
    /\ rfd = [r \in RIds |-> 0]
    /\ rcon = [r \in RIds |-> 0]
    /\ apc = [a \in AIds |-> "idle"]
    /\ afd = [a \in AIds |-> 0]
    /\ acon = [a \in AIds |-> 0]
    /\ spc = "idle"
    /\ stodo = {}
    /\ mpc = "idle"
    /\ mtodo = {}
    /\ mret = NoItem
    /\ mlist = {}
    /\ exited = FALSE
    /\ hist = [Hist0 EXCEPT !.starts = 1]

Payload == <<LBRACE, "X", RBRACE>>
KeepAlive == <<LBRACE, "K", RBRACE>>

\* the steps of the handlers, for every context
Acceptor == \E a \in AIds :
    \/ connect_handler(a, "none")
    \/ connect_handler_insert(a, "none")
    \/ connect_handler_arm(a)

Reader == \E r \in RIds :
    \/ io_handler(r)
    \/ io_handler_lock(r)
    \/ report_close(r, TRUE)
    \/ object_reader(r)
    \/ fetch_item(r, TRUE)
    \/ destroy_connection(r)
    \/ destroy_connection_free(r)
    \/ destroy_connection_unlock2(r)
    \/ object_reader_unlock(r)

Scanner == iter_keep_alives \/ check_keep_alive(TRUE)

\* the steps of io_handler on a connection that holds a frame
ReaderRead == \E r \in RIds :
    \/ io_handler(r)
    \/ io_handler_lock(r)
    \/ object_reader(r)
    \/ fetch_item(r, TRUE)

\* the steps of io_handler on a connection that holds no byte
ReaderClose == \E r \in RIds :
    \/ report_close(r, TRUE)
    \/ destroy_connection(r)
    \/ destroy_connection_free(r)
    \/ destroy_connection_unlock2(r)

\* start_server with any outcome, clients connecting and sending, the
\* handlers, the scanner and get_connected_list
NextConnect ==
    \/ \E fail \in StartFailures : start_server(fail)
    \/ ClientConnect
    \/ \E k \in RecIds : ClientSend(k, Payload)
    \/ Tick
    \/ Acceptor
    \/ ReaderRead
    \/ Scanner
    \/ get_connected_list

SpecConnect == Init /\ [][NextConnect]_vars

\* a running server with one client connected: more clients connect, clients
\* send, the handlers run, and the main context reads messages and stops the
\* server while handlers are in flight
InitStop == Running(1)

NextStop ==
    \/ ClientConnect
    \/ \E k \in RecIds : ClientClose(k)
    \/ \E k \in RecIds : ClientSend(k, Payload)
    \/ Acceptor
    \/ ReaderRead
    \/ ReaderClose
    \/ do_nothing
    \/ read_message
    \/ stop_server
    \/ stop_server_destroy
    \/ stop_server_free
    \/ stop_server_queue

SpecStop == InitStop /\ [][NextStop]_vars

\* two running connections: clients send whole objects, heartbeats, two
\* objects in one write and a cut-off object; the readers, the scanner and
\* read_message run in any order
TwoObjects == <<NL, CR, LBRACE, "X", RBRACE, LBRACE, "Y", RBRACE>>
Partial == <<LBRACE, "X">>
ReaderChunks == {Payload, KeepAlive, TwoObjects, Partial}

InitReader == Running(2)

NextReader ==
    \/ \E k \in RecIds : \E chunk \in ReaderChunks : ClientSend(k, chunk)
    \/ Tick
    \/ Reader
    \/ Scanner
    \/ read_message

SpecReader == InitReader /\ [][NextReader]_vars

\* two running connections that send payloads, fall silent and close, while
\* the clock advances and the scanner and the readers run; nothing is taken
\* off the queue, and no io_handler meets a missing table entry
InitClose == Running(2)

NextClose ==
    \/ \E k \in RecIds : ClientSend(k, Payload)
    \/ \E k \in RecIds : ClientClose(k)
    \/ Tick
    \/ ReaderRead
    \/ \E r \in RIds : report_close(r, TRUE)
    \/ \E r \in RIds : destroy_connection(r)
    \/ \E r \in RIds : destroy_connection_free(r)
    \/ Scanner

SpecClose == InitClose /\ [][NextClose]_vars

\* one running connection whose client sends objects that do not decode,
\* alone and followed by a payload in the same write
Undecodable == <<LBRACE, "!", RBRACE>>
UndecodableThenPayload == <<NL, LBRACE, "!", LBRACE, RBRACE, RBRACE, LBRACE, "Y", RBRACE>>
DecodeChunks == {Payload, Undecodable, UndecodableThenPayload}

InitDecode == Running(1)

NextDecode ==
    \/ \E k \in RecIds : \E chunk \in DecodeChunks : ClientSend(k, chunk)
    \/ Tick
    \/ ReaderRead
    \/ Scanner
    \/ read_message

SpecDecode == InitDecode /\ [][NextDecode]_vars

\* a running server with no client yet: clients connect and any call of
\* connect_handler after accept can fail
InitAccept == Running(0)

NextAccept ==
    \/ ClientConnect
    \/ \E a \in AIds : \E fail \in AcceptFailures : connect_handler(a, fail)
    \/ \E a \in AIds : \E fail \in InsertFailures : connect_handler_insert(a, fail)
    \/ \E a \in AIds : connect_handler_arm(a)
    \/ \E k \in RecIds : ClientSend(k, Payload)
    \/ ReaderRead
    \/ get_connected_list

SpecAccept == InitAccept /\ [][NextAccept]_vars

\* a process with one thread: the kernel runs io_handler on the thread that
\* calls read_message, on top of whatever that thread is doing.  READ_SIG is
\* blocked while io_handler runs, and the interrupted code goes on only when
\* the handler has returned.
NoHandler == \A r \in RIds : rpc[r] = "idle"

signal_io_handler == NoHandler /\ \E r \in RIds : io_handler(r)
interrupted_read_message_lock == NoHandler /\ read_message_lock
interrupted_read_message_pop == NoHandler /\ read_message_pop

InitSignal == Running(1)

NextSignal ==
    \/ \E k \in RecIds : ClientSend(k, Payload)
    \/ Tick
    \/ interrupted_read_message_lock
    \/ interrupted_read_message_pop
    \/ signal_io_handler
    \/ \E r \in RIds : io_handler_lock(r)
    \/ \E r \in RIds : object_reader(r)
    \/ \E r \in RIds : fetch_item(r, TRUE)

SpecSignal == InitSignal /\ [][NextSignal]_vars

\* the frame reader on every short sequence of bytes: the client of one
\* running connection writes the bytes in one write, an io_handler reads
Bytes == {NL, CR, LBRACE, RBRACE, "X"}
Streams == UNION {[1..n -> Bytes] : n \in 1..MaxLen}

first_write == hist.sends = 0 /\ \E s \in Streams : ClientSend(1, s)

InitFrame == Running(1)

NextFrame ==
    \/ first_write
    \/ ReaderRead

SpecFrame == InitFrame /\ [][NextFrame]_vars

\* every operation as a thread of its own, on a running server with one
\* client: another client connects, the first client writes once, a whole
\* object or a cut-off one, the clock advances, and the handlers, the
\* scanner, get_connected_list, read_message and stop_server run in any order
InitThreads == Running(1)

single_write ==
    hist.sends = 0 /\ \E chunk \in {Payload, Partial} : ClientSend(1, chunk)

NextThreads ==
    \/ ClientConnect
    \/ single_write
    \/ Tick
    \/ Acceptor
    \/ Reader
    \/ Scanner
    \/ get_connected_list
    \/ read_message
    \/ stop_server
    \/ stop_server_destroy
    \/ stop_server_free
    \/ stop_server_queue

SpecThreads == InitThreads /\ [][NextThreads]_vars

\* ------------------------------------------------------------ properties
ReadersIdle == \A r \in RIds : rpc[r] = "idle"
AcceptorsIdle == \A a \in AIds : apc[a] = "idle"

\* every item that was put on the queue, in the order of the queue
Enqueued == hist.delivered \o read_buff.items

\* C1 (P1, per-connection order): the items read from the objects of one
\* connection are on the queue, and are handed out by read_message, in the
\* order of the objects on that connection's byte stream, and each carries
\* the peer address of that connection (the peer of connection k is k).
C1_PerConnectionOrder ==
    \A i \in 1..Len(Enqueued) :
        Enqueued[i].conn # 0 =>
            /\ Enqueued[i].address = Enqueued[i].conn
            /\ \A j \in 1..Len(Enqueued) :
                 (i < j /\ Enqueued[j].conn = Enqueued[i].conn) =>
                     Enqueued[i].seq < Enqueued[j].seq

\* read_message handed out two items of connection 1, read by two io_handler
\* invocations, and the scanner ran
C1_Witness ==
    /\ Len(hist.delivered) = 2
    /\ hist.delivered[1].conn = 1
    /\ hist.delivered[2].conn = 1
    /\ hist.delivered[1].seq < hist.delivered[2].seq
    /\ hist.ticks > 0

\* connection k is open, its record is in the table, nothing is pending
\* for it and no io_handler is running
Quiet(k) ==
    /\ ReadersIdle
    /\ condata[k].st = "live"
    /\ ~condata[k].destroyed
    /\ connections_table.map[condata[k].fd] = k
    /\ fdtab[condata[k].fd] = k
    /\ ~conn[k].peer_closed
    /\ pend_read[condata[k].fd] = 0

\* C2 (round trip, completeness): when a connection that stays open has
\* no readiness event left and no io_handler is running, every object the
\* client wrote has been read: nothing is left unread on the socket.
C2_RoundTrip ==
    \A k \in RecIds : Quiet(k) => conn[k].stream = <<>>

\* the step of fetch_item in which context r reads a heartbeat for a record
\* that is allocated
ReadsKeepAlive(r) ==
    /\ rpc[r] = "fetch_item"
    /\ rpc'[r] # "fetch_item"
    /\ condata[rcon[r]].st = "live"
    /\ ReadFrom(condata[rcon[r]].fd).status = "SUCCESS"
    /\ decode_message(ReadFrom(condata[rcon[r]].fd).obj).ok
    /\ decode_message(ReadFrom(condata[rcon[r]].fd).obj).type = "KEEP_ALIVE"

\* C3 (P2, heartbeat suppression): no step leaves an item of type
\* KEEP_ALIVE on the queue, and the step of fetch_item that decodes a
\* KEEP_ALIVE object leaves the queue as it is and sets the record's
\* last_keep_alive to the current time.
C3_HeartbeatSuppression ==
    [][/\ \A i \in 1..Len(read_buff'.items) :
            read_buff'.items[i].type # "KEEP_ALIVE"
       /\ \A r \in RIds :
            ReadsKeepAlive(r) =>
                /\ read_buff' = read_buff
                /\ condata'[rcon[r]].last_keep_alive = now]_vars

\* a heartbeat was read after the clock advanced, and nothing was enqueued
C3_Witness ==
    \E k \in RecIds :
        /\ condata[k].st = "live"
        /\ condata[k].last_keep_alive > 0
        /\ conn[k].framed > 0
        /\ Enqueued = <<>>

\* C10 (frame ProtocolError): an io_handler that got ERROR from the frame
\* reader and is past destroy_connection has enqueued a software error item
\* of its own (one not read from an object, and neither the close nor the
\* timeout report) with the peer address of the record.
C10_ProtocolErrorReported ==
    \A r \in RIds :
        rpc[r] = "error_unlock" =>
            \E i \in 1..Len(Enqueued) :
                /\ Enqueued[i].type = "SOFTWARE_ERROR"
                /\ Enqueued[i].address = condata[rcon[r]].addr
                /\ Enqueued[i].conn = 0
                /\ Enqueued[i].reason \notin {"Connection closed", "Connection timeout"}

\* C4 (P3, close reported once, then silence): after the "Connection
\* closed" item of a peer no other item with that peer's address is put on
\* the queue.
C4_CloseThenSilence ==
    \A i \in 1..Len(Enqueued) :
        Enqueued[i].reason = "Connection closed" =>
            \A j \in 1..Len(Enqueued) :
                i < j => Enqueued[j].address # Enqueued[i].address

\* the records of the table that are older than KEEP_ALIVE_PROD
Overdue ==
    {p \in Records(connections_table) :
        now - condata[p].last_keep_alive > KEEP_ALIVE_PROD}

\* the step in which the scanner visits the entry of descriptor f
Visits(f) == spc = "visit" /\ stodo' # stodo /\ f = Min(stodo)

\* a timeout item of record p is appended to the queue
TimeoutAppended(p) ==
    read_buff'.items =
        Append(read_buff.items,
               Item("SOFTWARE_ERROR", "Connection timeout", condata[p].addr, now, 0, 0))

\* C5 (P5, timeout is reported in time), as stated: every expiry of the
\* timer that finds an overdue record in the table scans the table, and
\* every visit of the scan to an overdue record appends a timeout item with
\* the peer of that record.
C5_TimeoutInTime ==
    [][/\ (hist'.ticks > hist.ticks /\ Overdue # {}) => spc' = "visit"
       /\ \A f \in Fds :
            (Visits(f) /\ connections_table.map[f] \in Overdue) =>
                TimeoutAppended(connections_table.map[f])]_vars

\* C5, amended: an expiry of the timer that finds connections_mux free scans
\* every entry of the table, and a visit of the scan to an overdue record
\* that finds read_buff_mux free appends a timeout item with the peer of
\* that record; an expiry or a visit that finds its mutex held reports
\* nothing.
C5_TimeoutWhenUncontended ==
    [][/\ (hist'.ticks > hist.ticks /\ connections_mux = NoOwner
              /\ Records(connections_table) # {}) =>
            /\ spc' = "visit"
            /\ connections_mux' = SThread
            /\ stodo' = {f \in Fds : connections_table.map[f] # 0}
       /\ (hist'.ticks > hist.ticks /\ connections_mux # NoOwner) =>
            UNCHANGED <<read_buff, spc, stodo, connections_mux>>
       /\ \A f \in Fds :
            (Visits(f) /\ connections_table.map[f] \in Overdue) =>
                IF read_buff_mux = NoOwner /\ ~read_buff.null
                THEN TimeoutAppended(connections_table.map[f])
                ELSE UNCHANGED read_buff]_vars

\* the timer expired twice and the scan that followed the second expiry
\* reported the timeout of connection 1 at time 2
C5_Witness ==
    /\ hist.ticks = 2
    /\ Len(Enqueued) = 1
    /\ Enqueued[1].reason = "Connection timeout"
    /\ Enqueued[1].address = 1
    /\ Enqueued[1].recv_time = 2

\* C6 (P6, drain after stop): once stop_server has returned the read buffer
\* is gone and stays gone, every read_message call returns NULL and hands out
\* nothing, and read_buff_mux is free whenever no io_handler is running, so
\* the call does not wait.
C6_DrainAfterStop ==
    [][/\ hist'.stopped =>
            /\ read_buff'.null
            /\ (ReadersIdle' /\ spc' = "idle") => read_buff_mux' = NoOwner
       /\ (hist.stopped /\ hist'.reads > hist.reads) =>
            /\ mret' = NoItem
            /\ hist'.delivered = hist.delivered]_vars

\* stop_server disposed of queued items, and read_message was called twice since
C6_Witness ==
    /\ hist.stopped
    /\ hist.drained > 0
    /\ hist.reads_stopped >= 2
    /\ mret = NoItem

\* C7 (P7, no lost insert): when every connect_handler invocation has
\* returned, N connections were accepted and no record was destroyed, the
\* table holds N records, one under each accepted descriptor, and
\* get_connected_list returns the N peers.
AcceptorsDone == AcceptorsIdle /\ pend_connect = 0 /\ backlog = 0

C7_NoLostInsert ==
    (AcceptorsDone /\ hist.destroyed = 0 /\ ~hist.start_failed) =>
        /\ Cardinality(Records(connections_table)) = nconn
        /\ \A k \in 1..nconn :
             /\ connections_table.map[condata[k].fd] = k
             /\ fdtab[condata[k].fd] = k
        /\ list_ip_addrs(connections_table) = {condata[k].addr : k \in 1..nconn}
        /\ Cardinality(list_ip_addrs(connections_table)) = nconn

\* two clients were accepted, the handlers returned, the list was taken
C7_Witness ==
    /\ AcceptorsDone
    /\ nconn = 2
    /\ hist.destroyed = 0
    /\ mlist = {1, 2}
    /\ hist.ticks > 0

\* C8 (P4, table bookkeeping): with connections_mux free and no
\* connect_handler between accept and insert, the table holds as many
\* records as accepts succeeded minus records destroyed, each record under
\* its own descriptor, and the exit(EXIT_FAILURE) branch of the insert is
\* never taken.
C8_TableBookkeeping ==
    /\ ~exited
    /\ (connections_mux = NoOwner /\ \A a \in AIds : apc[a] \in {"idle", "arm"}) =>
         /\ Cardinality(Records(connections_table)) = nconn - hist.destroyed
         /\ \A f \in Fds : connections_table.map[f] # 0 =>
              condata[connections_table.map[f]].fd = f

\* C9 (start_server unwinding): after a start_server that failed, the
\* globals and the resources are as they were before the call: no listening
\* socket, no queue, no table, no connect handler, no timer.
C9_StartUnwinds ==
    hist.start_failed =>
        /\ listen_socket = -1
        /\ os_listen = "closed"
        /\ read_buff.null
        /\ connections_table.null
        /\ sig_connect = "default"
        /\ ~timer_on

\* ------------------------------------------------------------ framing, stated directly
\* the number of newline and carriage return bytes s starts with
Skipped(s) ==
    CHOOSE n \in 0..Len(s) :
        /\ \A i \in 1..n : s[i] \in {NL, CR}
        /\ n = Len(s) \/ s[n + 1] \notin {NL, CR}

\* the brace depth of s after its first i bytes
DepthAt(s, i) ==
    Cardinality({j \in 1..i : s[j] = LBRACE}) - Cardinality({j \in 1..i : s[j] = RBRACE})

\* the lengths at which s, which starts with "{", is back at depth zero
Closes(s) == {m \in 1..Len(s) : DepthAt(s, m) = 0}

\* the step of fetch_item in which context r reads, for a record that is
\* allocated, a whole object that does not decode
ReadsUndecodable(r) ==
    /\ rpc[r] = "fetch_item"
    /\ rpc'[r] # "fetch_item"
    /\ condata[rcon[r]].st = "live"
    /\ ReadFrom(condata[rcon[r]].fd).status = "SUCCESS"
    /\ ~decode_message(ReadFrom(condata[rcon[r]].fd).obj).ok

\* C11 (decode failure): the step of fetch_item that reads a whole object
\* that does not decode appends one SOFTWARE_ERROR item "Could not decode
\* message" with the peer address of the record, leaves the table and the
\* descriptors as they are, releases the record's mutex and read_buff_mux,
\* and takes from the socket the leading newlines and the bytes up to the
\* first brace that closes the object, nothing more.
C11_DecodeFailure ==
    [][\A r \in RIds :
        ReadsUndecodable(r) =>
            LET p == rcon[r]
                k == fdtab[condata[p].fd]
                s == conn[k].stream
                body == SubSeq(s, Skipped(s) + 1, Len(s))
                m == Min(Closes(body))
            IN /\ Len(read_buff'.items) = Len(read_buff.items) + 1
               /\ SubSeq(read_buff'.items, 1, Len(read_buff.items)) = read_buff.items
               /\ read_buff'.items[Len(read_buff'.items)].type = "SOFTWARE_ERROR"
               /\ read_buff'.items[Len(read_buff'.items)].reason = "Could not decode message"
               /\ read_buff'.items[Len(read_buff'.items)].address = condata[p].addr
               /\ connections_table' = connections_table
               /\ connections_table.map[condata[p].fd] = p
               /\ fdtab' = fdtab
               /\ condata'[p].st = "live"
               /\ condata'[p].mutex = NoOwner
               /\ read_buff_mux' = NoOwner
               /\ rpc'[r] = "idle"
               /\ conn'[k].stream = SubSeq(body, m + 1, Len(body))]_vars

\* after an object that did not decode, the object that followed it in the
\* same write was read by the next io_handler invocation
C11_Witness ==
    /\ Len(Enqueued) = 2
    /\ Enqueued[1].reason = "Could not decode message"
    /\ Enqueued[1].address = 1
    /\ Enqueued[2].type = "Y"
    /\ Enqueued[2].seq = 2
    /\ conn[1].stream = Undecodable
    /\ connections_table.map[1] = 1

\* C12 (acceptor failure cleanup): when a connect_handler invocation that
\* failed after accept has returned, close was called once on the accepted
\* descriptor, the descriptor is closed, and the table holds no entry for it.
C12_AcceptorCleanup ==
    hist.accept_failed =>
        /\ hist.accept_closes = 1
        /\ fdtab[hist.accept_fd] = 0
        /\ connections_table.map[hist.accept_fd] = 0

\* C13 (no re-entrant acquisition): in a process with one thread no
\* io_handler is about to lock read_buff_mux (in object_reader or in
\* report_close) while the read_message it interrupted holds that mutex.
C13_NoReentrantLock ==
    \A r \in RIds :
        ~(rpc[r] = "peek" /\ mpc = "read_pop" /\ read_buff_mux = MThread)

\* C14 (no access to a destroyed record): an io_handler that is about to
\* lock the mutex of its record, to read its destroyed flag, its descriptor
\* or its address, or to write its last_keep_alive, holds a record that is
\* still allocated.
C14_NoAccessToDestroyed ==
    \A r \in RIds :
        rpc[r] \in {"lock", "peek", "fetch_item", "close_destroy", "error_destroy"} =>
            condata[rcon[r]].st = "live"

\* C15 (tombstone protocol): an io_handler that gets past the lock of the
\* mutex of a record whose destroyed flag was set by free_connectiondata
\* returns at once: it does not go on to the probe.
C15_TombstoneObserved ==
    [][\A r \in RIds :
        (rpc[r] = "lock" /\ rpc'[r] # "lock" /\ condata[rcon[r]].destroyed) =>
            rpc'[r] = "idle"]_vars

\* context r is past the lock of the mutex of record p and is about to
\* probe the socket or to read from it
Reading(r, p) == rcon[r] = p /\ rpc[r] \in {"peek", "fetch_item"}

\* C16 (per-connection reader exclusion): no two io_handler invocations are
\* past the lock of the mutex of the same record, about to probe or to read
\* the connection, at the same time.
C16_ReaderExclusion ==
    \A p \in RecIds : \A r1, r2 \in RIds :
        (Reading(r1, p) /\ Reading(r2, p)) => r1 = r2

\* C17 (handlers are inert after shutdown): once stop_server has returned,
\* the process has not called exit, and the queue and the table are gone and
\* stay gone, whatever the handlers in flight do.
C17_InertAfterStop ==
    hist.stopped =>
        /\ ~exited
        /\ read_buff.null
        /\ connections_table.null

FrameExpected(s) ==
    LET body == SubSeq(s, Skipped(s) + 1, Len(s))
    IN IF body = <<>>
       THEN [status |-> "END", obj |-> <<>>, rest |-> <<>>]
       ELSE IF body[1] # LBRACE \/ Closes(body) = {}
       THEN [status |-> "ERROR", obj |-> <<>>, rest |-> <<>>]
       ELSE [status |-> "SUCCESS",
             obj |-> SubSeq(body, 1, Min(Closes(body))),
             rest |-> SubSeq(body, Min(Closes(body)) + 1, Len(body))]

\* C19 (frame reader result): on the bytes a connection holds,
\* read_json_object returns END if nothing follows the leading newlines and
\* carriage returns, ERROR if what follows does not start with "{" or ends
\* before the depth is back at zero, and otherwise SUCCESS with the bytes
\* from that "{" to the "}" that brings the depth back to zero, leaving
\* the bytes after it on the socket.
C19_FrameReaderResult ==
    \A k \in RecIds :
        LET got == read_json_object(conn[k].stream)
            want == FrameExpected(conn[k].stream)
        IN /\ got.status = want.status
           /\ got.status = "SUCCESS" => got.obj = want.obj /\ got.rest = want.rest
           /\ got.status = "END" => got.rest = <<>>

\* an io_handler read the object {X} that a write started with and left
\* the byte after it on the socket
C19_Witness ==
    /\ hist.sends = 1
    /\ conn[1].framed = 1
    /\ conn[1].stream = <<LBRACE>>
    /\ Len(read_buff.items) = 1
    /\ read_buff.items[1].type = "X"
    /\ ReadersIdle

\* ------------------------------------------------------------ waiting for locks
Contexts == {RThread(r) : r \in RIds} \cup {AThread(a) : a \in AIds} \cup {SThread, MThread}

\* the owner of the mutex io_handler context r is waiting for, NoOwner if it
\* waits for none: the mutex of its record before the lock, read_buff_mux
\* before object_reader and report_close, connections_mux before
\* destroy_connection
ReaderWaitsFor(r) ==
    IF rpc[r] = "lock" /\ condata[rcon[r]].st = "live" THEN condata[rcon[r]].mutex
    ELSE IF rpc[r] = "peek" THEN read_buff_mux
    ELSE IF rpc[r] \in {"close_destroy", "error_destroy"} THEN connections_mux
    ELSE NoOwner

\* the scanner waits only if its trylock does not return
ScannerWaitsFor ==
    IF /\ spc = "visit"
       /\ connections_table.map[Min(stodo)] \in Overdue
       /\ ~pthread_mutex_trylock_returns(read_buff_mux)
    THEN read_buff_mux ELSE NoOwner

\* the owner of the mutex context c is waiting for
WaitsFor(c) ==
    IF c[1] = "io_handler" THEN ReaderWaitsFor(c[2])
    ELSE IF c[1] = "connect_handler"
         THEN IF apc[c[2]] = "insert" THEN connections_mux ELSE NoOwner
    ELSE IF c = SThread THEN ScannerWaitsFor
    ELSE IF mpc = "stop_queue" /\ ~read_buff.null THEN read_buff_mux
    ELSE NoOwner

C21_LocksFreeWhenIdle ==
    (ReadersIdle /\ AcceptorsIdle /\ spc = "idle" /\ mpc = "idle") =>
        /\ connections_mux = NoOwner
        /\ read_buff_mux = NoOwner

====
